---- MODULE Spec2Model ----
(***************************************************************************)
(* rgrep: the context-aware line search of src/src/lib.rs, with the run     *)
(* over the files around it, Config::build and main.                       *)
(*                                                                         *)
(* Text is a sequence of one-character strings.  A record of the result    *)
(* vector is [kind, idx, text]: text is the String the code pushes; kind   *)
(* and idx remember which push produced it (a separator, a document line   *)
(* and its 0-based index, or the count), so that properties can speak      *)
(* about document indices whatever the prefix flags are.                   *)
(*                                                                         *)
(* The colored crate is modelled with colouring active (it writes the      *)
(* escape sequence, the text and the reset).  Context sizes stay far below *)
(* usize::MAX, so last_match_index + after_context does not overflow.      *)
(***************************************************************************)
EXTENDS Integers, Sequences, FiniteSets, TLC

\* ---------------------------------------------------------------- bounds
MaxLen == 5
MaxCtx == 2

\* ------------------------------------------------------------- text utils
Max(a, b) == IF a >= b THEN a ELSE b

\* usize::saturating_sub
SatSub(a, b) == IF a >= b THEN a - b ELSE 0

Digits == <<"0", "1", "2", "3", "4", "5", "6", "7", "8", "9">>

RECURSIVE ToDecimal(_)
\* usize::to_string
ToDecimal(n) ==
    IF n < 10 THEN <<Digits[n + 1]>>
    ELSE Append(ToDecimal(n \div 10), Digits[(n % 10) + 1])

UpperCase == <<"A", "B", "C", "D", "E", "F", "G", "H", "I", "J", "K", "L", "M",
               "N", "O", "P", "Q", "R", "S", "T", "U", "V", "W", "X", "Y", "Z">>
LowerCase == <<"a", "b", "c", "d", "e", "f", "g", "h", "i", "j", "k", "l", "m",
               "n", "o", "p", "q", "r", "s", "t", "u", "v", "w", "x", "y", "z">>

\* simple case folding of (?i), on the ASCII letters
Fold(c) ==
    IF \E k \in 1..26 : UpperCase[k] = c
    THEN LowerCase[CHOOSE k \in 1..26 : UpperCase[k] = c]
    ELSE c

\* the characters \b treats as word characters
IsWordChar(c) ==
    \/ \E k \in 1..26 : UpperCase[k] = c \/ LowerCase[k] = c
    \/ \E k \in 1..10 : Digits[k] = c
    \/ c = "_"

\* the characters regex::escape puts a backslash before
MetaChars == {"\\", ".", "+", "*", "?", "(", ")", "|", "[", "]", "{", "}",
              "^", "$", "#", "&", "-", "~"}

\* the query handed on unescaped
EscapeNothing(q) == q

RECURSIVE Escape(_)
\* regex::escape
Escape(q) ==
    IF q = <<>> THEN <<>>
    ELSE (IF Head(q) \in MetaChars THEN <<"\\", Head(q)>> ELSE <<Head(q)>>)
         \o Escape(Tail(q))

\* the pattern text with the word boundary on the left only
PatternTextOpenEnded(c) ==
    LET p0 == Escape(c.query)
        p1 == IF c.word_regexp THEN <<"\\", "b">> \o p0 ELSE p0
        p2 == IF c.line_regexp THEN <<"^">> \o p1 \o <<"$">> ELSE p1
    IN  IF c.ignore_case THEN <<"(", "?", "i", ")">> \o p2 ELSE p2

\* the pattern text build_regex hands to Regex::new
PatternText(c) ==
    LET p0 == Escape(c.query)
        p1 == IF c.word_regexp THEN <<"\\", "b">> \o p0 \o <<"\\", "b">> ELSE p0
        p2 == IF c.line_regexp THEN <<"^">> \o p1 \o <<"$">> ELSE p1
    IN  IF c.ignore_case THEN <<"(", "?", "i", ")">> \o p2 ELSE p2

RECURSIVE ParseAtoms(_)
\* Regex::new on the patterns build_regex can produce: a sequence of atoms,
\* each a literal character, ^, $ or \b
ParseAtoms(p) ==
    IF p = <<>> THEN <<>>
    ELSE IF Head(p) = "\\" /\ Len(p) >= 2
    THEN (IF p[2] = "b" THEN <<[t |-> "wb", c |-> ""]>>
                        ELSE <<[t |-> "lit", c |-> p[2]]>>)
         \o ParseAtoms(SubSeq(p, 3, Len(p)))
    ELSE IF Head(p) = "^" THEN <<[t |-> "bol", c |-> ""]>> \o ParseAtoms(Tail(p))
    ELSE IF Head(p) = "$" THEN <<[t |-> "eol", c |-> ""]>> \o ParseAtoms(Tail(p))
    ELSE IF Head(p) = "." THEN <<[t |-> "any", c |-> ""]>> \o ParseAtoms(Tail(p))
    ELSE <<[t |-> "lit", c |-> Head(p)]>> \o ParseAtoms(Tail(p))

HasFlagI(p) == Len(p) >= 4 /\ SubSeq(p, 1, 4) = <<"(", "?", "i", ")">>

\* build_regex: the compiled regex, as its case flag and its atoms
build_regex(c) ==
    LET p == PatternText(c)
    IN  [icase |-> HasFlagI(p),
         atoms |-> ParseAtoms(IF HasFlagI(p) THEN SubSeq(p, 5, Len(p)) ELSE p)]

\* is there a word boundary between line[k] and line[k+1] (k in 0..Len)
WordBoundary(line, k) ==
    LET before == k >= 1 /\ IsWordChar(line[k])
        after  == k + 1 <= Len(line) /\ IsWordChar(line[k + 1])
    IN  before # after

RECURSIVE MatchEnd(_, _, _, _)
\* the atoms from a on, matched with the next character at position pos
\* (1-based): the position after the match, or 0 when there is none
MatchEnd(re, line, a, pos) ==
    IF a > Len(re.atoms) THEN pos
    ELSE LET at == re.atoms[a]
         IN  CASE at.t = "bol" ->
                    IF pos = 1 THEN MatchEnd(re, line, a + 1, pos) ELSE 0
               [] at.t = "eol" ->
                    IF pos = Len(line) + 1 THEN MatchEnd(re, line, a + 1, pos) ELSE 0
               [] at.t = "wb" ->
                    IF WordBoundary(line, pos - 1)
                    THEN MatchEnd(re, line, a + 1, pos) ELSE 0
               [] at.t = "any" ->
                    IF pos <= Len(line) THEN MatchEnd(re, line, a + 1, pos + 1) ELSE 0
               [] OTHER ->
                    IF /\ pos <= Len(line)
                       /\ IF re.icase THEN Fold(line[pos]) = Fold(at.c)
                                      ELSE line[pos] = at.c
                    THEN MatchEnd(re, line, a + 1, pos + 1) ELSE 0

\* Regex::is_match
is_match(re, line) ==
    \E s \in 1..(Len(line) + 1) : MatchEnd(re, line, 1, s) # 0

\* ------------------------------------------------------------- colouring
\* colored: a styled string is the escape sequence, the text, the reset
Styled(code, s) == <<code>> \o s \o <<"ESC[0m">>
red_bold(s) == Styled("ESC[1;31m", s)
cyan(s)     == Styled("ESC[36m", s)
purple(s)   == Styled("ESC[35m", s)
green(s)    == Styled("ESC[32m", s)

RECURSIVE ReplaceFrom(_, _, _)
\* Regex::replace_all with the red-bold closure: the leftmost match from pos
\* on is replaced and the scan resumes after it (one character further on
\* after an empty match)
ReplaceFrom(re, line, pos) ==
    IF pos > Len(line) + 1 THEN <<>>
    ELSE LET e    == MatchEnd(re, line, 1, pos)
             here == IF pos <= Len(line) THEN <<line[pos]>> ELSE <<>>
         IN  IF e > pos
             THEN red_bold(SubSeq(line, pos, e - 1)) \o ReplaceFrom(re, line, e)
             ELSE IF e = pos
             THEN red_bold(<<>>) \o here \o ReplaceFrom(re, line, pos + 1)
             ELSE here \o ReplaceFrom(re, line, pos + 1)

replace_all(re, line) == ReplaceFrom(re, line, 1)

RECURSIVE SplitLines(_, _)
\* str::lines: split at "\n", a final empty piece is no line, and one "\r"
\* before the "\n" belongs to the terminator.  cur is the line being read.
SplitLines(text, cur) ==
    LET strip(l) == IF l # <<>> /\ l[Len(l)] = "\r" THEN SubSeq(l, 1, Len(l) - 1) ELSE l
    IN  IF text = <<>> THEN (IF cur = <<>> THEN <<>> ELSE <<cur>>)
        ELSE IF Head(text) = "\n" THEN <<strip(cur)>> \o SplitLines(Tail(text), <<>>)
        ELSE SplitLines(Tail(text), Append(cur, Head(text)))

str_lines(text) == SplitLines(text, <<>>)

\* ------------------------------------------------------------------ state
VARIABLES
    config,             \* the Config of the run
    regex,              \* build_regex(config), shared by every invocation
    file_path,          \* search's file_path argument
    lines,              \* contents.lines().collect()
    carry_in,           \* *needs_separator when search was called
    needs_separator,    \* the flag behind search's &mut bool
    results,            \* the Vec search builds
    match_count,
    after_context_cnt,
    last_match_index,
    index,              \* the loop's position: lines[index] is read next
    pc,                 \* "main" before Config::build, "run" in run outside
                        \* search, "loop" inside search's for loop, "done"
                        \* after its return, "exit" when the process ended
    ret,                \* the Vec search returned
    args,               \* env::args() after the program name
    fs,                 \* what lies under config.file_path: the entries
                        \* WalkDir yields, in its order; outside recursive
                        \* mode the first entry is the file the path names
    pos,                \* how many entries run has consumed
    stdout,             \* the records printed so far
    exit_code,          \* the process's exit status, NoExit while it runs
    calls,              \* how many times search was called
    first               \* what the call before a repeated call returned
                        \* and left in the flag

vars == <<config, regex, file_path, lines, carry_in, needs_separator, results,
          match_count, after_context_cnt, last_match_index, index, pc, ret,
          args, fs, pos, stdout, exit_code, calls, first>>

inputs == <<config, regex, file_path, lines, carry_in>>

\* what search neither reads nor writes
env == <<args, fs, pos, stdout, exit_code, calls, first>>

\* lines[index] of the code (Rust indexes from 0)
LineAt(i) == lines[i + 1]

\* ---------------------------------------------------------------- records
NoIndex == -1

SepRecord(text)     == [kind |-> "sep", idx |-> NoIndex, text |-> text]
LineRecord(i, text) == [kind |-> "line", idx |-> i, text |-> text]
CountRecord(text)   == [kind |-> "count", idx |-> NoIndex, text |-> text]
ErrorRecord(text)   == [kind |-> "error", idx |-> NoIndex, text |-> text]

NoExit == -1

\* the value of first while no call was repeated
NoCall == [ret |-> <<>>, flag |-> FALSE]

\* format_line
format_line(i, line) ==
    LET p1 == IF config.recursive
              THEN (IF config.color THEN purple(file_path) \o cyan(<<":">>)
                                    ELSE file_path \o <<":">>)
              ELSE <<>>
    IN  IF config.line_number
        THEN (IF config.color
              THEN p1 \o green(ToDecimal(i + 1)) \o cyan(<<":">>) \o line
              ELSE p1 \o ToDecimal(i + 1) \o <<":">> \o line)
        ELSE p1 \o line

\* ----------------------------------------------------- search, step by step
\* config.invert_match ^ is_match
IsDirectHit(line) == config.invert_match # is_match(regex, line)

\* the condition of the if that guards the loop body
Included(line) == IsDirectHit(line) \/ after_context_cnt > 0

\* the separator condition without its test of the context sizes
SeparatorDueAnyContext == needs_separator /\ after_context_cnt = 0

\* the condition under which the group separator is pushed
SeparatorDue ==
    /\ needs_separator
    /\ after_context_cnt = 0
    /\ (config.after_context > 0 \/ config.before_context > 0)

\* the separator String pushed
SeparatorText ==
    IF config.color THEN cyan(config.group_separator) ELSE config.group_separator

\* the before-context condition without its test of the pending count
BackfillDueIgnoringPending == config.before_context > 0

\* whether the before-context block runs
BackfillDue == config.before_context > 0 /\ after_context_cnt = 0

\* let start = index.saturating_sub(before_context).max(last_match_index + after_context)
BackfillStart ==
    Max(SatSub(index, config.before_context),
        last_match_index + config.after_context)

\* the retraction test, off by one
RetractAlsoNextLine(start) == start <= last_match_index + config.after_context + 1

\* if start <= (last_match_index + config.after_context)
Retract(start) == start <= last_match_index + config.after_context

\* Vec::pop, its result dropped
Pop(v) == IF v = <<>> THEN v ELSE SubSeq(v, 1, Len(v) - 1)

\* for i in start..index { results.push(format_line(i, &lines[i], ..)) }
BackfillRecords(start) ==
    [k \in 1..(index - start) |->
        LineRecord(start + k - 1, format_line(start + k - 1, LineAt(start + k - 1)))]

\* the new after_context_cnt
NextAfterContextCnt(line) ==
    IF IsDirectHit(line) THEN config.after_context
    ELSE SatSub(after_context_cnt, 1)

\* fmt_line without the replacement under color
FmtLinePlain(line) == line

\* fmt_line: the line, its matches replaced by their red-bold form under color
FmtLine(line) ==
    IF config.color THEN replace_all(regex, line) ELSE line

\* a line the loop passes over: neither a hit nor trailing context
SkipLine ==
    /\ pc = "loop"
    /\ index < Len(lines)
    /\ ~Included(LineAt(index))
    /\ index' = index + 1
    /\ UNCHANGED <<inputs, env, needs_separator, results, match_count,
                   after_context_cnt, last_match_index, pc, ret>>

\* count mode with the continue placed after the context bookkeeping
CountLineTracksContext ==
    /\ pc = "loop"
    /\ index < Len(lines)
    /\ Included(LineAt(index))
    /\ config.count_matches
    /\ match_count' = match_count + 1
    /\ after_context_cnt' = NextAfterContextCnt(LineAt(index))
    /\ index' = index + 1
    /\ UNCHANGED <<inputs, env, needs_separator, results, last_match_index, pc, ret>>

\* count mode: match_count += 1; continue
CountLine ==
    /\ pc = "loop"
    /\ index < Len(lines)
    /\ Included(LineAt(index))
    /\ config.count_matches
    /\ match_count' = match_count + 1
    /\ index' = index + 1
    /\ UNCHANGED <<inputs, env, needs_separator, results, after_context_cnt,
                   last_match_index, pc, ret>>

\* the rest of the loop body: separator, before-context, bookkeeping, push
EmitLine ==
    /\ pc = "loop"
    /\ index < Len(lines)
    /\ Included(LineAt(index))
    /\ ~config.count_matches
    /\ LET line  == LineAt(index)
           r1    == IF SeparatorDue
                    THEN Append(results, SepRecord(SeparatorText))
                    ELSE results
           start == BackfillStart
           r2    == IF BackfillDue /\ Retract(start) THEN Pop(r1) ELSE r1
           r3    == IF BackfillDue THEN r2 \o BackfillRecords(start) ELSE r2
       IN  /\ results' = Append(r3, LineRecord(index, format_line(index, FmtLine(line))))
           /\ needs_separator' = TRUE
           /\ after_context_cnt' = NextAfterContextCnt(line)
           /\ last_match_index' = index
    /\ index' = index + 1
    /\ UNCHANGED <<inputs, env, match_count, pc, ret>>

\* the end of the loop: the count alone in count mode, else results
Return ==
    /\ pc = "loop"
    /\ index = Len(lines)
    /\ ret' = IF config.count_matches
              THEN <<CountRecord(ToDecimal(match_count))>>
              ELSE results
    /\ pc' = "done"
    /\ UNCHANGED <<inputs, env, needs_separator, results, match_count,
                   after_context_cnt, last_match_index, index>>

Next == SkipLine \/ CountLine \/ EmitLine \/ Return

\* --------------------------------------------------------- initial states
Query == <<"M">>
LineKinds == {<<"M", "x", "M">>, <<"x">>}
GroupSeparators == {<<"-", "-">>, <<>>}

RECURSIVE JoinLines(_)
\* a file's text from its lines, each ended by "\n"
JoinLines(doc) ==
    IF doc = <<>> THEN <<>> ELSE Head(doc) \o <<"\n">> \o JoinLines(Tail(doc))

Documents(kinds, n) == UNION {[1..k -> kinds] : k \in 0..n}

\* the Config values Config::build can return for the query q, without the
\* matching options
Configs(q) ==
    [query : {q}, ignore_case : {FALSE}, word_regexp : {FALSE},
     line_regexp : {FALSE}, invert_match : BOOLEAN, count_matches : BOOLEAN,
     color : BOOLEAN, line_number : BOOLEAN, recursive : BOOLEAN,
     after_context : 0..MaxCtx, before_context : 0..MaxCtx,
     group_separator : GroupSeparators]

\* the state on entry to the loop of one search call.  run passes a fresh
\* false flag and the empty path outside recursive mode; in recursive mode
\* the flag is whatever the earlier files left and the path is the entry's.
InitSearch(configs, docs) ==
    /\ config \in configs
    /\ regex = build_regex(config)
    /\ file_path = IF config.recursive THEN <<"f">> ELSE <<>>
    /\ \E d \in docs : lines = str_lines(JoinLines(d))
    /\ carry_in \in (IF config.recursive THEN BOOLEAN ELSE {FALSE})
    /\ needs_separator = carry_in
    /\ results = <<>>
    /\ match_count = 0
    /\ after_context_cnt = 0
    /\ last_match_index = 0
    /\ index = 0
    /\ pc = "loop"
    /\ ret = <<>>
    /\ args = <<>>
    /\ fs = <<>>
    /\ pos = 0
    /\ stdout = <<>>
    /\ exit_code = NoExit
    /\ calls = 1
    /\ first = NoCall

InitWith(q, docs) == InitSearch(Configs(q), docs)

Init == InitWith(Query, Documents(LineKinds, MaxLen))

Spec == Init /\ [][Next]_vars

\* the document and the query of the two concrete scenarios, searched under
\* every Config
ScenarioQuery == <<"M", "A", "T", "C", "H">>
ScenarioDoc == <<<<"a">>, <<"b">>, ScenarioQuery, <<"c">>, <<"d">>,
                 <<"e">>, ScenarioQuery, <<"f">>>>

InitScenario == InitWith(ScenarioQuery, {ScenarioDoc})

SpecScenario == InitScenario /\ [][Next]_vars

\* ------------------------------------------------ the matching options
MaxMatchLen == 2

\* queries and lines on which the matching options differ: letter case, a
\* word that goes on, a non-word character that follows, a trailing blank,
\* and a query with a character regex::escape escapes
MatchQueries == {<<"m", "e">>, <<"e", ".">>}
MatchLines == {<<"m", "e">>, <<"M", "E">>, <<"M", "e", " ", "m", "e">>,
               <<"m", "e", ".">>, <<"m", "e", " ">>,
               <<"m", "e", "t", "h", "o", "d">>}

\* the Config values with the matching options, without context
MatchConfigs ==
    [query : MatchQueries, ignore_case : BOOLEAN, word_regexp : BOOLEAN,
     line_regexp : BOOLEAN, invert_match : BOOLEAN, count_matches : BOOLEAN,
     color : {FALSE}, line_number : {FALSE}, recursive : {FALSE},
     after_context : {0}, before_context : {0},
     group_separator : {<<"-", "-">>}]

InitMatch == InitSearch(MatchConfigs, Documents(MatchLines, MaxMatchLen))

SpecMatch == InitMatch /\ [][Next]_vars

\* -------------------------------------------------------------------- run
MaxFiles == 2

\* an entry WalkDir yields: kind "file", "dir" or "err" (a walk error, which
\* filter_map drops); readable says whether fs::read_to_string succeeds
FileEntry(doc)  == [kind |-> "file", readable |-> TRUE, contents |-> JoinLines(doc)]
UnreadableEntry == [kind |-> "file", readable |-> FALSE, contents |-> <<>>]
DirEntry        == [kind |-> "dir", readable |-> FALSE, contents |-> <<>>]
WalkErrorEntry  == [kind |-> "err", readable |-> FALSE, contents |-> <<>>]

\* entry.path().display().to_string() of the k-th entry
EntryPath(k) == <<"f">> \o ToDecimal(k)

\* fs::read_to_string succeeds on the k-th entry
CanRead(k) == k <= Len(fs) /\ fs[k].kind = "file" /\ fs[k].readable

\* the first lines of search with the locals of another call left in place
EnterLoopKeepsContext ==
    /\ results' = <<>>
    /\ match_count' = 0
    /\ UNCHANGED <<after_context_cnt, last_match_index>>
    /\ index' = 0
    /\ ret' = <<>>
    /\ pc' = "loop"

\* the first lines of search: its locals, fresh in every call
EnterLoop ==
    /\ results' = <<>>
    /\ match_count' = 0
    /\ after_context_cnt' = 0
    /\ last_match_index' = 0
    /\ index' = 0
    /\ ret' = <<>>
    /\ pc' = "loop"

\* search(&contents, config, &regex, &path, flag) is called on the k-th entry
CallSearch(k, path) ==
    /\ lines' = str_lines(fs[k].contents)
    /\ file_path' = path
    /\ carry_in' = needs_separator
    /\ EnterLoop
    /\ calls' = calls + 1
    /\ pos' = k
    /\ UNCHANGED <<config, regex, needs_separator, first, args, fs, stdout, exit_code>>

\* outside recursive mode: the file is read and searched with the empty path
\* and a fresh false flag
RunSingleRead ==
    /\ pc = "run"
    /\ ~config.recursive
    /\ CanRead(1)
    /\ CallSearch(1, <<>>)

\* outside recursive mode: read_to_string fails, run returns the error with
\* ?, and main prints it and exits with status 1
RunSingleFail ==
    /\ pc = "run"
    /\ ~config.recursive
    /\ ~CanRead(1)
    /\ stdout' = Append(stdout, ErrorRecord(<<"Application error: ">>))
    /\ exit_code' = 1
    /\ pc' = "exit"
    /\ UNCHANGED <<inputs, needs_separator, results, match_count,
                   after_context_cnt, last_match_index, index, ret,
                   first, args, fs, pos, calls>>

\* the walk giving up at an entry it cannot search
RunWalkSkipAborts ==
    /\ pc = "run"
    /\ config.recursive
    /\ pos < Len(fs)
    /\ ~CanRead(pos + 1)
    /\ stdout' = Append(stdout, ErrorRecord(<<"Application error: ">>))
    /\ exit_code' = 1
    /\ pc' = "exit"
    /\ UNCHANGED <<inputs, needs_separator, results, match_count,
                   after_context_cnt, last_match_index, index, ret,
                   first, args, fs, pos, calls>>

\* recursive mode: the walker's next entry is a walk error, no file, or a
\* file that cannot be read; the loop goes on to the next entry
RunWalkSkip ==
    /\ pc = "run"
    /\ config.recursive
    /\ pos < Len(fs)
    /\ ~CanRead(pos + 1)
    /\ pos' = pos + 1
    /\ UNCHANGED <<inputs, needs_separator, results, match_count,
                   after_context_cnt, last_match_index, index, pc, ret,
                   first, args, fs, stdout, exit_code, calls>>

\* recursive mode: the next entry is a file that was read; it is searched
\* with its path and the run's needs_separator
RunWalkSearch ==
    /\ pc = "run"
    /\ config.recursive
    /\ pos < Len(fs)
    /\ CanRead(pos + 1)
    /\ CallSearch(pos + 1, EntryPath(pos + 1))

\* recursive mode: the walker is exhausted, run returns Ok(()) and main ends
RunWalkEnd ==
    /\ pc = "run"
    /\ config.recursive
    /\ pos = Len(fs)
    /\ exit_code' = 0
    /\ pc' = "exit"
    /\ UNCHANGED <<inputs, needs_separator, results, match_count,
                   after_context_cnt, last_match_index, index, ret,
                   first, args, fs, pos, stdout, calls>>

\* for line in results { println!(..) }, then the next entry in recursive
\* mode and Ok(()) otherwise
PrintResults ==
    /\ pc = "done"
    /\ stdout' = stdout \o ret
    /\ IF config.recursive
       THEN pc' = "run" /\ UNCHANGED exit_code
       ELSE pc' = "exit" /\ exit_code' = 0
    /\ UNCHANGED <<inputs, needs_separator, results, match_count,
                   after_context_cnt, last_match_index, index, ret,
                   first, args, fs, pos, calls>>

NextRun ==
    \/ RunSingleRead \/ RunSingleFail
    \/ RunWalkSkip \/ RunWalkSearch \/ RunWalkEnd
    \/ SkipLine \/ CountLine \/ EmitLine \/ Return
    \/ PrintResults

\* the documents of the files of a run
RunDocs == {<<<<"M">>>>, <<<<"x">>>>, <<<<"x">>, <<"M">>>>, <<<<"M">>, <<"x">>>>,
            <<<<"x">>, <<"x">>, <<"M">>>>}

RunEntries == {FileEntry(d) : d \in RunDocs}
                  \cup {UnreadableEntry, DirEntry, WalkErrorEntry}

\* the Config values of the runs: the options that change what is searched
\* and where separators go
RunConfigs ==
    [query : {Query}, ignore_case : {FALSE}, word_regexp : {FALSE},
     line_regexp : {FALSE}, invert_match : BOOLEAN, count_matches : BOOLEAN,
     color : {FALSE}, line_number : {FALSE}, recursive : BOOLEAN,
     after_context : 0..MaxCtx, before_context : 0..MaxCtx,
     group_separator : {<<"-", "-">>}]

\* the state after the first two lines of run
InitRunWith(configs, trees) ==
    /\ config \in configs
    /\ regex = build_regex(config)
    /\ needs_separator = FALSE
    /\ fs \in trees
    /\ pos = 0
    /\ stdout = <<>>
    /\ exit_code = NoExit
    /\ calls = 0
    /\ first = NoCall
    /\ args = <<>>
    /\ file_path = <<>>
    /\ lines = <<>>
    /\ carry_in = FALSE
    /\ results = <<>>
    /\ match_count = 0
    /\ after_context_cnt = 0
    /\ last_match_index = 0
    /\ index = 0
    /\ ret = <<>>
    /\ pc = "run"

InitRun == InitRunWith(RunConfigs, UNION {[1..k -> RunEntries] : k \in 0..MaxFiles})

SpecRun == InitRun /\ [][NextRun]_vars

\* ------------------------------------------------------ a repeated call
\* search is called again with the arguments of the call that returned: the
\* same contents, config, regex and path, and a flag with the value the
\* first call was given
SecondCall ==
    /\ pc = "done"
    /\ calls = 1
    /\ first' = [ret |-> ret, flag |-> needs_separator]
    /\ needs_separator' = carry_in
    /\ EnterLoop
    /\ calls' = 2
    /\ UNCHANGED <<inputs, args, fs, pos, stdout, exit_code>>

NextTwice == SkipLine \/ CountLine \/ EmitLine \/ Return \/ SecondCall

SpecTwice == Init /\ [][NextTwice]_vars

\* ---------------------------------------------------------- Config::build
MaxArgs == 4

\* Option<String> and Option<usize>
None    == [some |-> FALSE, v |-> <<>>]
Some(x) == [some |-> TRUE, v |-> x]

StartsWith(str, prefix) ==
    Len(str) >= Len(prefix) /\ SubSeq(str, 1, Len(prefix)) = prefix

\* parse_opt_val: arg.split_once('=').map(|(_, v)| v.to_string())
parse_opt_val(arg) ==
    IF \E k \in 1..Len(arg) : arg[k] = "="
    THEN LET k == CHOOSE k \in 1..Len(arg) :
                    arg[k] = "=" /\ \A j \in 1..(k - 1) : arg[j] # "="
         IN  Some(SubSeq(arg, k + 1, Len(arg)))
    ELSE None

DigitValue(c) == (CHOOSE k \in 1..10 : Digits[k] = c) - 1
IsDigit(c) == \E k \in 1..10 : Digits[k] = c

RECURSIVE DecimalValue(_)
DecimalValue(ds) ==
    IF ds = <<>> THEN 0
    ELSE 10 * DecimalValue(SubSeq(ds, 1, Len(ds) - 1)) + DigitValue(ds[Len(ds)])

\* str::parse::<usize>().ok(): digits after an optional plus sign
parse_usize(str) ==
    LET ds == IF str # <<>> /\ str[1] = "+" THEN Tail(str) ELSE str
    IN  IF ds # <<>> /\ \A k \in 1..Len(ds) : IsDigit(ds[k])
        THEN Some(DecimalValue(ds))
        ELSE None

\* args.next().and_then(|s| s.parse().ok()).unwrap_or(0)
NextNumberOrZero(rest) ==
    IF Len(rest) >= 2 /\ parse_usize(rest[2]).some THEN parse_usize(rest[2]).v ELSE 0

\* parse_opt_val(&arg).and_then(|s| s.parse().ok())
OptionNumber(arg) ==
    IF parse_opt_val(arg).some THEN parse_usize(parse_opt_val(arg).v) ELSE None

\* the option names Config::build compares the argument with
OptIgnoreCase      == {<<"-", "i">>, <<"-", "-", "i", "g", "n", "o", "r", "e", "-", "c", "a", "s", "e">>}
OptNoIgnoreCase    == {<<"-", "-", "n", "o", "-", "i", "g", "n", "o", "r", "e", "-", "c", "a", "s", "e">>}
OptInvertMatch     == {<<"-", "v">>, <<"-", "-", "i", "n", "v", "e", "r", "t", "-", "m", "a", "t", "c", "h">>}
OptWordRegexp      == {<<"-", "w">>, <<"-", "-", "w", "o", "r", "d", "-", "r", "e", "g", "e", "x", "p">>}
OptLineRegexp      == {<<"-", "x">>, <<"-", "-", "l", "i", "n", "e", "-", "r", "e", "g", "e", "x", "p">>}
OptCount           == {<<"-", "c">>, <<"-", "-", "c", "o", "u", "n", "t">>}
OptColor           == {<<"-", "-", "c", "o", "l", "o", "r">>}
OptLineNumber      == {<<"-", "n">>, <<"-", "-", "l", "i", "n", "e", "-", "n", "u", "m", "b", "e", "r">>}
OptRecursive       == {<<"-", "r">>, <<"-", "-", "r", "e", "c", "u", "r", "s", "i", "v", "e">>}
OptAfter           == <<"-", "A">>
OptBefore          == <<"-", "B">>
OptContext         == <<"-", "C">>
PrefixAfter        == <<"-", "-", "a", "f", "t", "e", "r", "-", "c", "o", "n", "t", "e", "x", "t">>
PrefixBefore       == <<"-", "-", "b", "e", "f", "o", "r", "e", "-", "c", "o", "n", "t", "e", "x", "t">>
PrefixContext      == <<"-", "-", "c", "o", "n", "t", "e", "x", "t">>
PrefixGroupSep     == <<"-", "-", "g", "r", "o", "u", "p", "_", "s", "e", "p", "a", "r", "a", "t", "o", "r">>
OptNoGroupSep      == <<"-", "-", "n", "o", "_", "g", "r", "o", "u", "p", "_", "s", "e", "p", "a", "r", "a", "t", "o", "r">>

ErrContext   == "Invalid context length argument"
ErrTooMany   == "Invalid option or too many arguments"
ErrNoQuery   == "Didn't get a query string"
ErrNoPath    == "Didn't get a file path"

\* the locals of Config::build before its loop
BuildLocals ==
    [ignore_case |-> FALSE, no_ignore_case |-> FALSE, invert_match |-> FALSE,
     word_regexp |-> FALSE, line_regexp |-> FALSE, count_matches |-> FALSE,
     line_number |-> FALSE, color |-> FALSE, recursive |-> FALSE,
     query |-> None, file_path |-> None,
     after_context |-> 0, before_context |-> 0,
     group_separator |-> <<"-", "-">>, no_group_separator |-> FALSE]

RECURSIVE ParseArgs(_, _)
\* the while loop of Config::build over the arguments left, from the locals
\* st: the error it returns with, or "" and the locals at its end
ParseArgs(rest, st) ==
    IF rest = <<>> THEN [err |-> "", st |-> st]
    ELSE LET arg  == Head(rest)
             next == Tail(rest)
             \* the arguments left after args.next() took the option's value
             after == IF next = <<>> THEN next ELSE Tail(next)
         IN  CASE arg \in OptIgnoreCase ->
                    ParseArgs(next, [st EXCEPT !.ignore_case = TRUE])
               [] arg \in OptNoIgnoreCase ->
                    ParseArgs(next, [st EXCEPT !.no_ignore_case = TRUE])
               [] arg \in OptInvertMatch ->
                    ParseArgs(next, [st EXCEPT !.invert_match = TRUE])
               [] arg \in OptWordRegexp ->
                    ParseArgs(next, [st EXCEPT !.word_regexp = TRUE])
               [] arg \in OptLineRegexp ->
                    ParseArgs(next, [st EXCEPT !.line_regexp = TRUE])
               [] arg \in OptCount ->
                    ParseArgs(next, [st EXCEPT !.count_matches = TRUE])
               [] arg \in OptColor ->
                    ParseArgs(next, [st EXCEPT !.color = TRUE])
               [] arg \in OptLineNumber ->
                    ParseArgs(next, [st EXCEPT !.line_number = TRUE])
               [] arg \in OptRecursive ->
                    ParseArgs(next, [st EXCEPT !.recursive = TRUE])
               [] arg = OptAfter ->
                    ParseArgs(after, [st EXCEPT !.after_context = NextNumberOrZero(rest)])
               [] arg = OptBefore ->
                    ParseArgs(after, [st EXCEPT !.before_context = NextNumberOrZero(rest)])
               [] arg = OptContext ->
                    ParseArgs(after, [st EXCEPT !.before_context = NextNumberOrZero(rest),
                                                !.after_context = NextNumberOrZero(rest)])
               [] OTHER ->
                    IF StartsWith(arg, PrefixAfter)
                    THEN (IF OptionNumber(arg).some
                          THEN ParseArgs(next, [st EXCEPT !.after_context = OptionNumber(arg).v])
                          ELSE [err |-> ErrContext, st |-> st])
                    ELSE IF StartsWith(arg, PrefixBefore)
                    THEN (IF OptionNumber(arg).some
                          THEN ParseArgs(next, [st EXCEPT !.before_context = OptionNumber(arg).v])
                          ELSE [err |-> ErrContext, st |-> st])
                    ELSE IF StartsWith(arg, PrefixContext)
                    THEN (IF OptionNumber(arg).some
                          THEN ParseArgs(next, [st EXCEPT !.before_context = OptionNumber(arg).v,
                                                          !.after_context = OptionNumber(arg).v])
                          ELSE [err |-> ErrContext, st |-> st])
                    ELSE IF StartsWith(arg, PrefixGroupSep)
                    THEN ParseArgs(next, [st EXCEPT !.group_separator =
                            IF parse_opt_val(arg).some THEN parse_opt_val(arg).v
                                                       ELSE <<"-", "-">>])
                    ELSE IF arg = OptNoGroupSep
                    THEN ParseArgs(next, [st EXCEPT !.no_group_separator = TRUE])
                    ELSE IF ~st.query.some
                    THEN ParseArgs(next, [st EXCEPT !.query = Some(arg)])
                    ELSE IF ~st.file_path.some
                    THEN ParseArgs(next, [st EXCEPT !.file_path = Some(arg)])
                    ELSE [err |-> ErrTooMany, st |-> st]

\* if no_ignore_case { invert_match = false }
InvertMatchAfterLoop(st) == IF st.no_ignore_case THEN FALSE ELSE st.invert_match

\* Config::build on the arguments after the program name: the error, or ""
\* and the Config (file_path is kept beside it: search does not read it)
Config_build(argv) ==
    LET r  == ParseArgs(argv, BuildLocals)
        st == r.st
        c  == [query |-> st.query.v, ignore_case |-> st.ignore_case,
               word_regexp |-> st.word_regexp, line_regexp |-> st.line_regexp,
               invert_match |-> InvertMatchAfterLoop(st),
               count_matches |-> st.count_matches, color |-> st.color,
               line_number |-> st.line_number, recursive |-> st.recursive,
               after_context |-> st.after_context,
               before_context |-> st.before_context,
               group_separator |-> IF st.no_group_separator THEN <<>>
                                   ELSE st.group_separator]
    IN  IF r.err # "" THEN [err |-> r.err, config |-> c]
        ELSE IF ~st.query.some THEN [err |-> ErrNoQuery, config |-> c]
        ELSE IF ~st.recursive /\ ~st.file_path.some THEN [err |-> ErrNoPath, config |-> c]
        ELSE [err |-> "", config |-> c]

\* ------------------------------------------------------------------- main
\* Config::build fails: main prints the problem and exits with status 1
MainBuildFails ==
    /\ pc = "main"
    /\ Config_build(args).err # ""
    /\ stdout' = Append(stdout, ErrorRecord(<<"Problem parsing arguments: ",
                                              Config_build(args).err>>))
    /\ exit_code' = 1
    /\ pc' = "exit"
    /\ UNCHANGED <<inputs, needs_separator, results, match_count,
                   after_context_cnt, last_match_index, index, ret,
                   first, args, fs, pos, calls>>

\* Config::build succeeds: main calls run, which builds the regex and sets
\* needs_separator to false
MainBuildOk ==
    /\ pc = "main"
    /\ Config_build(args).err = ""
    /\ config' = Config_build(args).config
    /\ regex' = build_regex(Config_build(args).config)
    /\ needs_separator' = FALSE
    /\ pc' = "run"
    /\ UNCHANGED <<file_path, lines, carry_in, results, match_count,
                   after_context_cnt, last_match_index, index, ret,
                   first, args, fs, pos, stdout, exit_code, calls>>

NextMain ==
    \/ MainBuildOk \/ MainBuildFails
    \/ RunSingleRead \/ RunSingleFail
    \/ RunWalkSkip \/ RunWalkSearch \/ RunWalkEnd
    \/ SkipLine \/ CountLine \/ EmitLine \/ Return
    \/ PrintResults

\* the arguments tried: options, a number, a word, a long option with an
\* unparsable value and a flag Config::build does not know
ArgTokens == {<<"-", "v">>, <<"-", "-", "n", "o", "-", "i", "g", "n", "o", "r", "e", "-", "c", "a", "s", "e">>, <<"-", "r">>, <<"-", "c">>, <<"-", "A">>, <<"1">>, <<"q">>,
              <<"-", "-", "c", "o", "n", "t", "e", "x", "t", "=", "z">>, <<"-", "z">>}

\* the trees under the path: one file, an unreadable file before a file,
\* nothing
MainTrees == {<<FileEntry(<<<<"q">>, <<"x">>, <<"1">>>>)>>,
              <<UnreadableEntry, FileEntry(<<<<"q">>>>)>>,
              <<>>}

\* tests::base_config: the Config before any option is read
base_config ==
    [query |-> <<>>, ignore_case |-> FALSE, word_regexp |-> FALSE,
     line_regexp |-> FALSE, invert_match |-> FALSE, count_matches |-> FALSE,
     color |-> FALSE, line_number |-> FALSE, recursive |-> FALSE,
     after_context |-> 0, before_context |-> 0, group_separator |-> <<"-", "-">>]

\* the process at the start of main
InitMain ==
    /\ args \in UNION {[1..k -> ArgTokens] : k \in 0..MaxArgs}
    /\ fs \in MainTrees
    /\ config = base_config
    /\ regex = build_regex(base_config)
    /\ needs_separator = FALSE
    /\ pos = 0
    /\ stdout = <<>>
    /\ exit_code = NoExit
    /\ calls = 0
    /\ first = NoCall
    /\ file_path = <<>>
    /\ lines = <<>>
    /\ carry_in = FALSE
    /\ results = <<>>
    /\ match_count = 0
    /\ after_context_cnt = 0
    /\ last_match_index = 0
    /\ index = 0
    /\ ret = <<>>
    /\ pc = "main"

SpecMain == InitMain /\ [][NextMain]_vars

\* ============================================================ properties
Done     == pc = "done"
NonCount == ~config.count_matches
NumLines == Len(lines)
A == config.after_context
B == config.before_context

\* line i of the document is a direct hit: the matcher's verdict, inverted
\* under invert_match
DirectHitAt(i) ==
    \/ ~config.invert_match /\ is_match(regex, LineAt(i))
    \/ config.invert_match /\ ~is_match(regex, LineAt(i))

Hits == {i \in 0..(NumLines - 1) : DirectHitAt(i)}

\* the positions of the line records and of the separators in a vector
LinePos(v) == {p \in 1..Len(v) : v[p].kind = "line"}
SepPos(v)  == {p \in 1..Len(v) : v[p].kind = "sep"}

\* the texts of a vector, as the renderer prints them
Texts(v) == [p \in 1..Len(v) |-> v[p].text]

\* the text carries the red-bold styling of a match span
Highlighted(text) == \E k \in 1..Len(text) : text[k] = "ESC[1;31m"

\* no flag but the context sizes is set (and the separator is the default)
NoOtherFlags ==
    /\ ~config.invert_match /\ ~config.count_matches /\ ~config.color
    /\ ~config.line_number /\ ~config.recursive /\ ~carry_in
    /\ config.group_separator = <<"-", "-">>

\* C1: context merge law.  In a non-count search with fresh carry, two
\* consecutive direct hits i < j with j - i - 1 <= before_context +
\* after_context have no separator between their records, and no document
\* line is emitted twice.
C1_ContextMergeLaw ==
    (Done /\ NonCount /\ ~carry_in) =>
        /\ \A i, j \in Hits :
              (/\ i < j
               /\ ~\E h \in Hits : i < h /\ h < j
               /\ j - i - 1 <= B + A)
              => \A p, q \in LinePos(ret), s \in SepPos(ret) :
                    ~(ret[p].idx = i /\ ret[q].idx = j /\ p < s /\ s < q)
        /\ \A p, q \in LinePos(ret) : p # q => ret[p].idx # ret[q].idx

\* C2: the document indices of the emitted line records, in output order,
\* are strictly ascending.
C2_StrictlyAscending ==
    (Done /\ NonCount) =>
        \A p, q \in LinePos(ret) : p < q => ret[p].idx < ret[q].idx

\* C3: no context line is missed: every line within before_context before
\* and after_context after a direct hit is in the output.
C3_NoContextLineMissed ==
    (Done /\ NonCount) =>
        \A i \in Hits :
            \A k \in Max(0, i - B)..(IF i + A <= NumLines - 1 THEN i + A ELSE NumLines - 1) :
                \E p \in LinePos(ret) : ret[p].idx = k

\* C4: with a non-empty separator and some context, two line records that
\* are consecutive in the output and not adjacent in the document have a
\* separator between them.
C4_SeparatorBetweenBlocks ==
    (Done /\ NonCount /\ config.group_separator # <<>> /\ A + B > 0) =>
        \A p, q \in LinePos(ret) :
            (/\ p < q
             /\ ~\E m \in LinePos(ret) : p < m /\ m < q
             /\ ret[q].idx > ret[p].idx + 1)
            => \E s \in SepPos(ret) : p < s /\ s < q

\* C5: separator law.  With before_context = after_context = 0 no separator
\* is ever pushed, whatever the document, invert_match and the carried flag.
C5_SeparatorLaw ==
    (A = 0 /\ B = 0) => SepPos(results) = {} /\ SepPos(ret) = {}

\* C5 witness: a zero-context search entered with the flag set has returned
\* two hits with a gap between them
C5_Witness ==
    /\ Done /\ NonCount /\ A = 0 /\ B = 0 /\ carry_in
    /\ \E i, j \in Hits : j > i + 1 /\ (i + 1) \notin Hits
    /\ Len(ret) >= 2

\* C6: count mode returns exactly one record, the decimal number of direct
\* hits, whatever the context sizes, and pushes no line or separator.
C6_CountMode ==
    (Done /\ config.count_matches) =>
        /\ ret = <<CountRecord(ToDecimal(Cardinality(Hits)))>>
        /\ results = <<>>

\* C6 witness: a count with context configured, over a document where a
\* line that is no hit directly follows a hit
C6_Witness ==
    /\ Done /\ config.count_matches /\ A > 0 /\ B > 0
    /\ \E i \in Hits : i + 1 < NumLines /\ (i + 1) \notin Hits
    /\ Cardinality(Hits) >= 2

\* C7: without invert_match every line the matcher accepts has a record in
\* the non-count result, and that record carries highlighting if and only
\* if color is set.
C7_MatchesAppear ==
    (Done /\ NonCount /\ ~config.invert_match) =>
        \A i \in 0..(NumLines - 1) :
            is_match(regex, LineAt(i)) =>
                \E p \in LinePos(ret) :
                    /\ ret[p].idx = i
                    /\ Highlighted(ret[p].text) <=> config.color

\* C7 witness: a coloured search with context has returned two matching lines
C7_Witness ==
    /\ Done /\ NonCount /\ ~config.invert_match /\ config.color
    /\ A > 0 /\ B > 0
    /\ \E i, j \in 0..(NumLines - 1) :
          i # j /\ is_match(regex, LineAt(i)) /\ is_match(regex, LineAt(j))

\* C8: scenario 1.  The scenario document with after_context = 1 and
\* before_context = 1 returns b, MATCH, c, separator, e, MATCH, f.
C8_ScenarioOne ==
    (Done /\ NoOtherFlags /\ A = 1 /\ B = 1 /\ lines = ScenarioDoc) =>
        /\ Texts(ret) = <<<<"b">>, ScenarioQuery, <<"c">>, <<"-", "-">>,
                          <<"e">>, ScenarioQuery, <<"f">>>>
        /\ SepPos(ret) = {4}
        /\ [p \in 1..Len(ret) |-> ret[p].idx] = <<1, 2, 3, NoIndex, 5, 6, 7>>

\* C8 witness: scenario 1 has run to its return
C8_Witness ==
    /\ Done /\ NoOtherFlags /\ A = 1 /\ B = 1 /\ lines = ScenarioDoc
    /\ Len(ret) = 7

\* C9: scenario 2.  The scenario document with after_context = 2 and
\* before_context = 2 returns the one run b, MATCH, c, d, e, MATCH, f,
\* without a separator.
C9_ScenarioTwo ==
    (Done /\ NoOtherFlags /\ A = 2 /\ B = 2 /\ lines = ScenarioDoc) =>
        /\ Texts(ret) = <<<<"b">>, ScenarioQuery, <<"c">>, <<"d">>,
                          <<"e">>, ScenarioQuery, <<"f">>>>
        /\ SepPos(ret) = {}

\* C10: context lines are never highlighted: under color a record carries
\* highlighting only if its line is a direct hit.
C10_ContextNeverHighlighted ==
    (Done /\ NonCount /\ config.color) =>
        \A p \in LinePos(ret) :
            Highlighted(ret[p].text) => DirectHitAt(ret[p].idx)

\* C11: an empty group separator means no separator: with group_separator
\* empty the output of search consists of line records only.
C11_EmptySeparatorMeansNone ==
    (Done /\ NonCount /\ config.group_separator = <<>>) => SepPos(ret) = {}

\* ------------------------------------------------------ properties of run
\* the k-th entry is a file whose read fails / succeeds
UnreadableFile(k) == fs[k].kind = "file" /\ ~fs[k].readable
ReadableFiles == {k \in 1..Len(fs) : fs[k].kind = "file" /\ fs[k].readable}

\* C12, recursive mode, the step over a file that cannot be read: search is
\* not called, nothing is printed, needs_separator is unchanged and the walk
\* goes on
C12_SkipStep ==
    (pc = "run" /\ config.recursive /\ pos < Len(fs) /\ UnreadableFile(pos + 1))
    => /\ calls' = calls
       /\ stdout' = stdout
       /\ needs_separator' = needs_separator
       /\ pc' = "run"
       /\ pos' = pos + 1

\* C12, at the end of the run: a recursive run has searched every readable
\* file and returned Ok; a single-file run whose read failed has not called
\* search, has reported the error and exits with status 1
C12_AtExit ==
    pc = "exit" =>
        IF config.recursive
        THEN exit_code = 0 /\ calls = Cardinality(ReadableFiles)
        ELSE (1 \notin ReadableFiles)
             => /\ exit_code = 1
                /\ calls = 0
                /\ stdout = <<ErrorRecord(<<"Application error: ">>)>>

\* C12: file read failure.  In recursive mode an unreadable file is skipped
\* without a search, output or change of needs_separator, the later files
\* are searched and run returns Ok; in single-file mode run returns the error
\* without calling search and the process exits non-zero.
C12_ReadFailure == [][C12_SkipStep]_vars /\ []C12_AtExit

\* C12 witness: a recursive run has ended after an unreadable file that was
\* followed by a file whose search printed something
C12_Witness ==
    /\ pc = "exit" /\ config.recursive
    /\ Len(fs) = 2 /\ UnreadableFile(1) /\ 2 \in ReadableFiles
    /\ calls = 1 /\ stdout # <<>>

\* a line record of the current call lies in the context window of a hit of
\* the current file
InWindowOfHit(i) == \E h \in Hits : h - B <= i /\ i <= h + A

\* C17, in states: the locals are 0 when a call enters its loop, and every
\* line a call returns is a hit of its file or context of one
C17_FreshLocals ==
    /\ (pc = "loop" /\ index = 0) => (after_context_cnt = 0 /\ last_match_index = 0)
    /\ (Done /\ NonCount) => \A p \in LinePos(ret) : InWindowOfHit(ret[p].idx)

\* C17: across the files of a recursive run only needs_separator is carried:
\* last_match_index and after_context_cnt start at 0 in every call, pending
\* after-context of one file includes no line of the next, and
\* needs_separator, once true, stays true for the rest of the run.
C17_OnlyFlagCarried ==
    []C17_FreshLocals /\ [][needs_separator => needs_separator']_vars

\* C17 witness: in a recursive run with after-context, the search of a file
\* that begins with a line that is no hit has returned, after a file that
\* ends in a hit was printed
C17_Witness ==
    /\ Done /\ NonCount /\ config.recursive /\ ~config.invert_match /\ A > 0
    /\ pos = 2 /\ fs[1] = FileEntry(<<<<"M">>>>) /\ stdout # <<>>
    /\ NumLines > 0 /\ ~DirectHitAt(0)
    /\ needs_separator

\* C18: blocks of different files are never merged: in a recursive non-count
\* run with context, the first record returned for a file that has output
\* after an earlier file had output is a separator.
C18_SeparatorBetweenFiles ==
    (/\ Done /\ NonCount /\ config.recursive /\ A + B > 0
     /\ stdout # <<>> /\ ret # <<>>)
    => ret[1].kind = "sep"

\* C19: separator retraction never removes a line: within one call every
\* record that was in results before an iteration is still there, in place,
\* after it, so results.pop() took nothing or the separator pushed in the
\* same iteration.
C19_PopTakesNoLine ==
    [][(pc = "loop" /\ pc' = "loop")
        => /\ Len(results') >= Len(results)
           /\ SubSeq(results', 1, Len(results)) = results]_vars

\* C19 witness: a search with before-context, entered with the flag set, has
\* returned two adjacent hits: the separator pushed before each was popped
C19_Witness ==
    /\ Done /\ NonCount /\ B > 0 /\ A = 0 /\ carry_in
    /\ {0, 1} \subseteq Hits
    /\ SepPos(ret) = {}

\* ------------------------------------------ properties of the matching
\* two characters are the same, letter case ignored under ic
SameChar(a, b, ic) == IF ic THEN Fold(a) = Fold(b) ELSE a = b

\* q occurs in line from position s on
OccursAt(q, line, s, ic) ==
    /\ s + Len(q) - 1 <= Len(line)
    /\ \A k \in 1..Len(q) : SameChar(line[s + k - 1], q[k], ic)

\* q occurs in line with no word character directly before or after it
WholeWordIn(q, line, ic) ==
    \E s \in 1..Len(line) :
        /\ OccursAt(q, line, s, ic)
        /\ (s = 1 \/ ~IsWordChar(line[s - 1]))
        /\ (s + Len(q) > Len(line) \/ ~IsWordChar(line[s + Len(q)]))

AllWordChars(q) == \A k \in 1..Len(q) : IsWordChar(q[k])

\* C14: whole-word matching.  With word_regexp (and not line_regexp) and a
\* query of word characters, the lines a plain search returns are exactly
\* those with an occurrence of the query that no word character precedes or
\* follows, letter case ignored under ignore_case.
C14_WholeWord ==
    (/\ Done /\ NonCount /\ ~config.invert_match
     /\ config.word_regexp /\ ~config.line_regexp
     /\ AllWordChars(config.query))
    => {ret[p].idx : p \in LinePos(ret)}
         = {i \in 0..(NumLines - 1) :
               WholeWordIn(config.query, LineAt(i), config.ignore_case)}

\* C14 witness: the whole-word search for me over method and me. has
\* returned me. alone
C14_Witness ==
    /\ Done /\ NonCount /\ ~config.invert_match /\ ~config.ignore_case
    /\ config.word_regexp /\ ~config.line_regexp
    /\ config.query = <<"m", "e">>
    /\ lines = <<<<"m", "e", "t", "h", "o", "d">>, <<"m", "e", ".">>>>
    /\ Texts(ret) = <<<<"m", "e", ".">>>>

\* the line is accepted: it is the query under line_regexp, it contains the
\* query otherwise
Accepts(line) ==
    IF config.line_regexp
    THEN Len(line) = Len(config.query)
         /\ OccursAt(config.query, line, 1, config.ignore_case)
    ELSE \E s \in 1..Len(line) :
            OccursAt(config.query, line, s, config.ignore_case)

RECURSIVE SelectedFrom(_)
\* the records of the lines from index i on that are accepted, or under
\* invert_match not accepted, unmodified
SelectedFrom(i) ==
    IF i >= NumLines THEN <<>>
    ELSE (IF Accepts(LineAt(i)) # config.invert_match
          THEN <<LineRecord(i, LineAt(i))>> ELSE <<>>)
         \o SelectedFrom(i + 1)

\* C15: without context, count, color, line numbers, recursion and carry
\* (and without word_regexp) search returns exactly the accepted lines, each
\* once, unmodified and in document order, with no separator; under
\* line_regexp a line is accepted iff it is the whole query, and
\* ignore_case ignores letter case.
C15_PlainSearch ==
    (/\ Done /\ NonCount /\ A = 0 /\ B = 0
     /\ ~config.color /\ ~config.line_number /\ ~config.recursive
     /\ ~carry_in /\ ~config.word_regexp)
    => ret = SelectedFrom(0)

\* C15 witness: the case-insensitive whole-line search for me over ME and
\* me followed by a blank has returned ME alone
C15_Witness ==
    /\ Done /\ NonCount /\ A = 0 /\ B = 0 /\ ~config.invert_match
    /\ config.line_regexp /\ config.ignore_case /\ ~config.word_regexp
    /\ config.query = <<"m", "e">>
    /\ lines = <<<<"M", "E">>, <<"m", "e", " ">>>>
    /\ Texts(ret) = <<<<"M", "E">>>>

\* C16: idempotence.  A second call of search with the same contents, config
\* and path and the same initial flag returns the same records as the first
\* and leaves the flag with the same value.
C16_Idempotent ==
    (Done /\ calls = 2) => (ret = first.ret /\ needs_separator = first.flag)

\* C16 witness: the repeated call has returned, for a document that ends in
\* a hit with after-context pending and records in the result
C16_Witness ==
    /\ Done /\ calls = 2 /\ NonCount /\ A > 0 /\ B > 0
    /\ NumLines >= 2 /\ DirectHitAt(NumLines - 1)
    /\ Len(ret) >= 2 /\ ret = first.ret

\* ------------------------------------------- properties of Config::build
ShortContextOpts == {<<"-", "A">>, <<"-", "B">>, <<"-", "C">>}
LongContextOpts  == {<<"-", "-", "a", "f", "t", "e", "r", "-", "c", "o", "n", "t", "e", "x", "t">>, <<"-", "-", "b", "e", "f", "o", "r", "e", "-", "c", "o", "n", "t", "e", "x", "t">>, <<"-", "-", "c", "o", "n", "t", "e", "x", "t">>}

\* every option Config::build knows, by name or by prefix
KnownOption(arg) ==
    \/ arg \in {<<"-", "i">>, <<"-", "-", "i", "g", "n", "o", "r", "e", "-", "c", "a", "s", "e">>, <<"-", "-", "n", "o", "-", "i", "g", "n", "o", "r", "e", "-", "c", "a", "s", "e">>, <<"-", "v">>, <<"-", "-", "i", "n", "v", "e", "r", "t", "-", "m", "a", "t", "c", "h">>,
                <<"-", "w">>, <<"-", "-", "w", "o", "r", "d", "-", "r", "e", "g", "e", "x", "p">>, <<"-", "x">>, <<"-", "-", "l", "i", "n", "e", "-", "r", "e", "g", "e", "x", "p">>, <<"-", "c">>, <<"-", "-", "c", "o", "u", "n", "t">>,
                <<"-", "-", "c", "o", "l", "o", "r">>, <<"-", "n">>, <<"-", "-", "l", "i", "n", "e", "-", "n", "u", "m", "b", "e", "r">>, <<"-", "r">>, <<"-", "-", "r", "e", "c", "u", "r", "s", "i", "v", "e">>,
                <<"-", "-", "n", "o", "_", "g", "r", "o", "u", "p", "_", "s", "e", "p", "a", "r", "a", "t", "o", "r">>}
    \/ arg \in ShortContextOpts
    \/ \E pre \in LongContextOpts \cup {<<"-", "-", "g", "r", "o", "u", "p", "_", "s", "e", "p", "a", "r", "a", "t", "o", "r">>} : StartsWith(arg, pre)

RECURSIVE IsValueOfOption(_)
\* the k-th argument is the value that follows -A, -B or -C
IsValueOfOption(k) ==
    k > 1 /\ args[k - 1] \in ShortContextOpts /\ ~IsValueOfOption(k - 1)

IsNumber(str) == str # <<>> /\ \A k \in 1..Len(str) : IsDigit(str[k])

\* the text after the first = of a long option, <<>> without one
ValueText(arg) ==
    IF \E k \in 1..Len(arg) : arg[k] = "="
    THEN SubSeq(arg, 1 + CHOOSE k \in 1..Len(arg) :
                        arg[k] = "=" /\ \A j \in 1..(k - 1) : arg[j] # "=", Len(arg))
    ELSE <<>>

\* an operand: no option and no option's value
Operands == {k \in 1..Len(args) : ~IsValueOfOption(k) /\ args[k][1] # "-"}

\* the query is missing, or the path where one is needed (a recursive run
\* searches "." without one)
MissingOperand ==
    Cardinality(Operands)
        < (IF \E k \in 1..Len(args) :
                 ~IsValueOfOption(k) /\ args[k] \in {<<"-", "r">>,
                     <<"-", "-", "r", "e", "c", "u", "r", "s", "i", "v", "e">>}
           THEN 1 ELSE 2)

UnknownFlag ==
    \E k \in 1..Len(args) :
        ~IsValueOfOption(k) /\ args[k][1] = "-" /\ ~KnownOption(args[k])

UnparsableContext ==
    \E k \in 1..Len(args) :
        /\ ~IsValueOfOption(k)
        /\ \/ args[k] \in ShortContextOpts
              /\ (k = Len(args) \/ ~IsNumber(args[k + 1]))
           \/ (\E pre \in LongContextOpts : StartsWith(args[k], pre))
              /\ ~IsNumber(ValueText(args[k]))

\* C13: configuration errors.  For arguments with a missing query or path,
\* an unknown flag or an unparsable context length, Config::build fails:
\* the problem is printed, the process exits with status 1 and search is
\* never called.
C13_ConfigErrors ==
    (pc # "main" /\ (MissingOperand \/ UnknownFlag \/ UnparsableContext))
    => /\ pc = "exit"
       /\ exit_code = 1
       /\ calls = 0
       /\ Len(stdout) = 1 /\ stdout[1].kind = "error"

\* C20: the Config that Config::build returns has invert_match set if and
\* only if -v or --invert-match is among the options: no other option, and
\* not --no-ignore-case, changes it.
C20_InvertMatchFrame ==
    (pc = "run" /\ calls = 0)
    => (config.invert_match
          <=> \E k \in 1..Len(args) :
                 ~IsValueOfOption(k) /\ args[k] \in {<<"-", "v">>, <<"-", "-", "i", "n", "v", "e", "r", "t", "-", "m", "a", "t", "c", "h">>})
====
